---- MODULE Spec2Model ----
(***************************************************************************)
(* RF Fox (src/rf_fox.py): the encrypted messaging core.                   *)
(*                                                                         *)
(* One background thread (fldigi_listener) polls the radio-modem transport *)
(* and appends to messages["received"]; every /broadcast request runs in   *)
(* its own thread, hands a payload to the transport and appends to         *)
(* messages["transmitted"].  Both appends are made under messages_lock.    *)
(* The page (index) reads both lists; the settings requests import and     *)
(* delete the key files of remote stations next to the identity key pair   *)
(* that load_rsa_keys reads, or generates, when the module is imported.    *)
(*                                                                         *)
(* Spec is the running program.  StartupSpec is load_rsa_keys called on    *)
(* the key directory an earlier run may have left; RoundTripSpec applies   *)
(* encrypt_message and decrypt_message to a plaintext; KeyStoreSpec is the *)
(* settings requests alone; TransportSpec is the broadcast calls together  *)
(* with fldigi's transmit text; FairSpec and LockFairSpec are the threads  *)
(* that use messages_lock, under fair scheduling.                          *)
(*                                                                         *)
(* Strings are modelled as flat records:                                   *)
(*   form  "none"  the Python value None                                   *)
(*         "str"   a text string of `chars` characters, `bytes` UTF-8 bytes*)
(*         "bytes" the UTF-8 encoding of such a string                     *)
(*         "oaep"  an RSA-OAEP block made with key `key` and random seed   *)
(*                 `r` from the bytes described by chars/bytes             *)
(*         "junk"  a byte string that is no OAEP block of any key          *)
(*         "error" a raised exception                                      *)
(*   b64   TRUE when the value is the base64 text of the block described   *)
(*   utf8  TRUE when the bytes described are the UTF-8 encoding of a text   *)
(* The timestamp field of a record is not modelled: no property below      *)
(* reads it.                                                               *)
(***************************************************************************)
EXTENDS Integers, Sequences, FiniteSets, TLC

\* ---------------------------------------------------------------- bounds
\* MaxInputs: how many inputs the system is given in one run (answers of the
\* transport to the listener's poll plus requests posted to the web
\* application).
\* NumNonces: how many random seeds an OAEP encryption can draw from.
\* MaxLoads: how many times load_rsa_keys is called in StartupSpec.
MaxInputs == 2
NumNonces == 2
MaxLoads == 2

\* ---------------------------------------------------- program constants
MaxMessageLen == 1024
KeyBits == 2048
HashLen == 20
Utf8Width == 4
MaxPayload == (KeyBits \div 8) - (2 * HashLen) - 2

Calls == 1..MaxInputs
Reqs == 1..MaxInputs
Nonces == 1..NumNonces

\* ------------------------------------------------------------ the values
Val(form, b64, chars, bytes, utf8, key, r) ==
    [form |-> form, b64 |-> b64, chars |-> chars, bytes |-> bytes, utf8 |-> utf8,
     key |-> key, r |-> r]

None == Val("none", FALSE, 0, 0, TRUE, "", 0)
Raised == Val("error", FALSE, 0, 0, TRUE, "", 0)
Str(n) == Val("str", FALSE, n, n, TRUE, "", 0)

\* message.encode("utf-8") / plaintext.decode("utf-8")
utf8_encode(s) == [s EXCEPT !.form = "bytes"]
utf8_decode(b) == IF b.form = "bytes" /\ b.utf8 THEN [b EXCEPT !.form = "str"] ELSE Raised

\* base64.b64encode(x).decode("utf-8") / base64.b64decode(text)
b64encode(x) == [x EXCEPT !.b64 = TRUE]
b64decode(t) == IF t.b64 THEN [t EXCEPT !.b64 = FALSE] ELSE Raised

\* the encryption of an OAEP built on SHA-256, whose blocks take 190 bytes
public_cipher_encrypt_sha256(data, r) ==
    IF data.bytes > (KeyBits \div 8) - (2 * 32) - 2
    THEN Raised
    ELSE [data EXCEPT !.form = "oaep", !.key = "local", !.r = r]

\* PKCS1_OAEP.new(public_key).encrypt / PKCS1_OAEP.new(private_key).decrypt
public_cipher_encrypt(data, r) ==
    IF data.bytes > MaxPayload
    THEN Raised
    ELSE [data EXCEPT !.form = "oaep", !.key = "local", !.r = r]

private_cipher_decrypt(data) ==
    IF data.form = "oaep" /\ data.key = "local"
    THEN [data EXCEPT !.form = "bytes", !.key = "", !.r = 0]
    ELSE Raised

encrypt_message(msg, r) ==
    LET ciphertext == public_cipher_encrypt(utf8_encode(msg), r)
    IN  IF ciphertext.form = "error" THEN None ELSE b64encode(ciphertext)

\* decrypt_message with `return plaintext or None`: an empty plaintext is
\* reported as a failed decryption.
decrypt_message_drops_empty(encrypted) ==
    LET encrypted_data == b64decode(encrypted)
        plaintext == IF encrypted_data.form = "error"
                     THEN Raised
                     ELSE private_cipher_decrypt(encrypted_data)
        text == IF plaintext.form = "error" THEN Raised ELSE utf8_decode(plaintext)
    IN  IF text.form = "error" \/ text.chars = 0 THEN None ELSE text

\* decrypt_message without its try/except: a failure is raised to the caller.
decrypt_message_raises(encrypted) ==
    LET encrypted_data == b64decode(encrypted)
        plaintext == IF encrypted_data.form = "error"
                     THEN Raised
                     ELSE private_cipher_decrypt(encrypted_data)
    IN  IF plaintext.form = "error" THEN Raised ELSE utf8_decode(plaintext)

decrypt_message(encrypted) ==
    LET encrypted_data == b64decode(encrypted)
        plaintext == IF encrypted_data.form = "error"
                     THEN Raised
                     ELSE private_cipher_decrypt(encrypted_data)
        text == IF plaintext.form = "error" THEN Raised ELSE utf8_decode(plaintext)
    IN  IF text.form = "error" THEN None ELSE text

\* Python truthiness of a string-or-None value
Truthy(v) == v.form # "none" /\ (v.b64 \/ v.chars > 0)

\* ------------------------------------------------------------ the inputs
\* What get_rx_data can return when text is waiting: a plain text, the
\* base64 of a block made for the local key (of a 1-character plaintext, of
\* an empty plaintext, and of bytes that are no UTF-8 text), the base64 of a
\* block made for another key, and the base64 of bytes that are no RSA block.
RxTexts ==
    { Str(1),
      Val("oaep", TRUE, 1, 1, TRUE, "local", 1),
      Val("oaep", TRUE, 0, 0, TRUE, "local", 1),
      Val("oaep", TRUE, 0, 2, FALSE, "local", 1),
      Val("oaep", TRUE, 1, 1, TRUE, "other", 1),
      Val("junk", TRUE, 0, 3, FALSE, "", 0) }

\* The form's message field: empty, one character, the longest accepted
\* (too long for one OAEP block) and one character more.
Messages == { Str(0), Str(1), Str(MaxMessageLen), Str(MaxMessageLen + 1) }

\* The plaintexts of the round trip: strings of 1- to 4-byte characters
\* whose UTF-8 encodings are empty, short, and just inside and just outside
\* one OAEP block.
PlainLens ==
    { 0, 1 } \cup { (MaxPayload \div w) + d : w \in 1..Utf8Width, d \in { 0 - 1, 0, 1 } }
Plaintexts ==
    { Val("str", FALSE, n, w * n, TRUE, "", 0) : n \in PlainLens, w \in 1..Utf8Width }

\* The form's encryption field: the two options of the page, and any
\* other value a client may post.
Choices == { "encrypted", "unencrypted", "other" }

\* ------------------------------------------------------- the key files
PRIVATE_KEY_PATH == "private_key.pem"
PUBLIC_KEY_PATH == "public_key.pem"

\* The key_alias field of the settings form, as posted.
FormAliases == { " ", " bob ", "../public_key" }

\* request.form.get("key_alias", "").strip()
strip(a) ==
    CASE a = " " -> ""
      [] a = " bob " -> "bob"
      [] OTHER -> a

\* os.path.join(PUBLIC_KEYS_DIR, f"{key_alias}.pem"), as the file system
\* resolves it
KeyPath(alias) ==
    CASE alias = "../public_key" -> PUBLIC_KEY_PATH
      [] alias = "../private_key" -> PRIVATE_KEY_PATH
      [] OTHER -> "public_keys/" \o alias \o ".pem"

Paths == { PRIVATE_KEY_PATH, PUBLIC_KEY_PATH } \cup { KeyPath(strip(a)) : a \in FormAliases }

\* [key.replace(".pem", "") for key in os.listdir(PUBLIC_KEYS_DIR)
\*  if key.endswith(".pem")]: the aliases the settings page lists
stored_keys(f) ==
    { alias \in { strip(a) : a \in FormAliases } :
        /\ KeyPath(alias) \notin { PRIVATE_KEY_PATH, PUBLIC_KEY_PATH }
        /\ f[KeyPath(alias)] # "" }

\* The public_key field of the settings form, as posted (already stripped):
\* nothing, two well-formed public keys, a well-formed private key, and text
\* that is no key.
FormKeys == { "", "public:k1", "public:k2", "private:k3", "garbage" }

\* RSA.import_key(text) returns a key (TRUE) or raises ValueError (FALSE)
RSA_import_key(text) ==
    text \in { "public:k1", "public:k2", "private:k3", "public:local", "private:local",
               "public:fresh", "private:fresh" }

\* The key pairs RSA.generate(2048) may return: the one of this installation
\* and another one.
GeneratedKeys == { "local", "fresh" }

\* generate_rsa_keys(): both files are written with the new pair
generate_rsa_keys(f, id) ==
    [f EXCEPT ![PRIVATE_KEY_PATH] = "private:" \o id,
              ![PUBLIC_KEY_PATH] = "public:" \o id]

\* load_rsa_keys() that generates a key pair on every call
load_rsa_keys_regenerates(f, id) ==
    LET g == generate_rsa_keys(f, id)
    IN  [files |-> g, private_key |-> g[PRIVATE_KEY_PATH], public_key |-> g[PUBLIC_KEY_PATH]]

\* load_rsa_keys(): a key pair is generated when either file is missing,
\* then both files are read and returned.  id is the pair RSA.generate
\* would return.
load_rsa_keys(f, id) ==
    LET g == IF f[PRIVATE_KEY_PATH] = "" \/ f[PUBLIC_KEY_PATH] = ""
             THEN generate_rsa_keys(f, id)
             ELSE f
    IN  [files |-> g, private_key |-> g[PRIVATE_KEY_PATH], public_key |-> g[PUBLIC_KEY_PATH]]

\* fldigi_client.modem.names, and the mode field of the settings form
Modes == { "BPSK31", "RTTY" }
FormModes == Modes \cup { "bogus" }

VARIABLES
    messages,           \* messages["received"], messages["transmitted"]
    messages_lock,      \* "free", "listener" or the call holding it
    lpc,                \* fldigi_listener: where the thread is
    received_text,      \* fldigi_listener: local
    decrypted_text,     \* fldigi_listener: local
    bpc,                \* broadcast: where each call is
    message,            \* broadcast: local, per call
    encryption_choice,  \* broadcast: local, per call
    encrypted_message,  \* broadcast: local, per call
    result,             \* broadcast: the page the call returns
    called,             \* broadcast: the transport calls the call has made
    raised,             \* broadcast: the transport call that raised, if any
    inputs,             \* number of inputs given so far
    started,            \* number of broadcast requests received
    succeeded,          \* number of broadcast requests answered with success
    rxHistory,          \* the non-empty texts get_rx_data returned, in order
    txHistory,          \* per transmitted record: the call that appended it
    tx_buffer,          \* fldigi: its transmit text (the calls whose payloads it holds)
    sent,               \* fldigi: what each call's main.tx() put on the air
    page,               \* index: the two lists the last rendered page showed
    ipc,                \* index: where the request being rendered is
    files,              \* the files under ~/.rf_fox: path -> content ("" = no file)
    modem_name,         \* fldigi_client.modem.name
    sreq,               \* settings: each import or delete request (its place,
                        \* its locals, what it logged and the page it returns)
    sstarted,           \* number of import and delete requests received
    private_key,        \* the module's private_key ("" before it is loaded)
    public_key,         \* the module's public_key ("" before it is loaded)
    loads,              \* number of calls of load_rsa_keys made
    plaintext,          \* round trip: the message given to encrypt_message
    ciphertext,         \* round trip: what encrypt_message returned
    recovered,          \* round trip: what decrypt_message returned
    tpc                 \* round trip: which of the two calls have been made

vars == << messages, messages_lock, lpc, received_text, decrypted_text, bpc,
           message, encryption_choice, encrypted_message, result, called,
           raised, inputs, started, succeeded, rxHistory, txHistory, tx_buffer,
           sent, page, ipc,
           files, modem_name, sreq, sstarted, private_key, public_key, loads,
           plaintext, ciphertext, recovered, tpc >>

fldigiVars == << tx_buffer, sent >>
listenerVars == << lpc, received_text, decrypted_text, rxHistory >>
callVars == << bpc, message, encryption_choice, encrypted_message, result,
               called, raised, started, succeeded, txHistory, fldigiVars >>
keyVars == << private_key, public_key, loads >>
tripVars == << plaintext, ciphertext, recovered, tpc >>
webVars == << page, ipc, files, modem_name, sreq, sstarted, keyVars, tripVars >>

\* A settings request that has not arrived, or has returned.
NoRequest == [pc |-> "idle", op |-> "", key_alias |-> "", public_key_content |-> "",
              logged |-> "", raised |-> "", result |-> ""]

\* No thread has run and no request has come in.
Idle ==
    /\ messages = [received |-> << >>, transmitted |-> << >>]
    /\ messages_lock = "free"
    /\ lpc = "poll"
    /\ received_text = None
    /\ decrypted_text = None
    /\ bpc = [c \in Calls |-> "idle"]
    /\ message = [c \in Calls |-> None]
    /\ encryption_choice = [c \in Calls |-> ""]
    /\ encrypted_message = [c \in Calls |-> None]
    /\ result = [c \in Calls |-> ""]
    /\ called = [c \in Calls |-> {}]
    /\ raised = [c \in Calls |-> ""]
    /\ inputs = 0
    /\ started = 0
    /\ succeeded = 0
    /\ rxHistory = << >>
    /\ txHistory = << >>
    /\ tx_buffer = << >>
    /\ sent = [c \in Calls |-> << >>]
    /\ page = [received |-> << >>, transmitted |-> << >>]
    /\ ipc = "idle"
    /\ modem_name = "BPSK31"
    /\ sreq = [k \in Reqs |-> NoRequest]
    /\ sstarted = 0

\* The module has been imported on a fresh installation: load_rsa_keys has
\* generated the identity key pair and returned it.
Init ==
    /\ Idle
    /\ files = [p \in Paths |->
                    IF p = PRIVATE_KEY_PATH THEN "private:local"
                    ELSE IF p = PUBLIC_KEY_PATH THEN "public:local"
                    ELSE ""]
    /\ private_key = "private:local"
    /\ public_key = "public:local"
    /\ loads = 1
    /\ plaintext = None
    /\ ciphertext = None
    /\ recovered = None
    /\ tpc = "start"

\* ------------------------------------------------------- fldigi_listener
ReceivedRecord(text, dec) == [message |-> text, decrypted |-> dec]

\* list.insert(0, record) in the place of list.append(record)
PrependRecord(log, record) == << record >> \o log

\* an assignment of [record] in the place of list.append(record)
ReplaceByRecord(log, record) == << record >>

\* messages[...].append(record)
AppendRecord(log, record) == Append(log, record)

\* received_text = fldigi_client.text.get_rx_data(): the call raises, returns
\* nothing, or returns waiting text.
ListenerPoll ==
    /\ lpc = "poll"
    /\ inputs < MaxInputs
    /\ inputs' = inputs + 1
    /\ \/ /\ lpc' = "backoff"
          /\ UNCHANGED << received_text, rxHistory >>
       \/ \E t \in RxTexts \cup { Str(0) } :
             /\ received_text' = t
             /\ IF Truthy(t)
                THEN /\ rxHistory' = Append(rxHistory, t)
                     /\ lpc' = "lock"
                ELSE /\ UNCHANGED rxHistory
                     /\ lpc' = "sleep"
    /\ UNCHANGED << messages, messages_lock, decrypted_text, callVars, webVars >>

\* with messages_lock:
ListenerAcquire ==
    /\ lpc = "lock"
    /\ messages_lock = "free"
    /\ messages_lock' = "listener"
    /\ lpc' = "append"
    /\ UNCHANGED << messages, received_text, decrypted_text, rxHistory, inputs, callVars, webVars >>

\* The body of the with block and the release that ends it.  An exception
\* raised in the body leaves the block (releasing the lock) for the except
\* clause of the loop.
ListenerAppend ==
    /\ lpc = "append"
    /\ messages_lock = "listener"
    /\ LET text == decrypt_message(received_text)
       IN  IF text.form = "error"
           THEN /\ lpc' = "backoff"
                /\ UNCHANGED << messages, decrypted_text >>
           ELSE /\ decrypted_text' = text
                /\ messages' = [messages EXCEPT !.received =
                                    AppendRecord(@, ReceivedRecord(received_text, text))]
                /\ lpc' = "sleep"
    /\ messages_lock' = "free"
    /\ UNCHANGED << received_text, rxHistory, inputs, callVars, webVars >>

\* time.sleep(0.5)
ListenerSleep ==
    /\ lpc = "sleep"
    /\ lpc' = "poll"
    /\ received_text' = None
    /\ decrypted_text' = None
    /\ UNCHANGED << messages, messages_lock, rxHistory, inputs, callVars, webVars >>

\* an except clause that ends the thread in the place of the long sleep
ListenerBackoffExits ==
    /\ lpc = "backoff"
    /\ lpc' = "exited"
    /\ UNCHANGED << messages, messages_lock, received_text, decrypted_text,
                    rxHistory, inputs, callVars, webVars >>

\* except Exception: logger.error(...); time.sleep(5)
ListenerBackoff ==
    /\ lpc = "backoff"
    /\ lpc' = "poll"
    /\ UNCHANGED << messages, messages_lock, received_text, decrypted_text,
                    rxHistory, inputs, callVars, webVars >>

\* ------------------------------------------------------------- broadcast
\* The name under which a call holds messages_lock
Holder(c) == ToString(c)

\* the length check written with >= in the place of >
ValidMessageExclusive(msg) == msg.chars > 0 /\ msg.chars < MaxMessageLen

\* not (not message or len(message) > 1024)
ValidMessage(msg) == msg.chars > 0 /\ msg.chars <= MaxMessageLen

TransmittedRecord(msg, choice, r) ==
    [encrypted |-> IF choice = "encrypted" THEN encrypt_message(msg, r) ELSE None,
     decrypted |-> msg]

\* What the call gives (or gave) add_tx: the message in the unencrypted
\* branch, the result of encrypt_message in the other.
Payload(c) ==
    IF encryption_choice[c] = "unencrypted" THEN message[c] ELSE encrypted_message[c]

\* The request arrives: the form is read and checked, and in the encrypting
\* branch encrypt_message runs (with a fresh random seed).
BroadcastBegin(c) ==
    /\ bpc[c] = "idle"
    /\ c = started + 1
    /\ inputs < MaxInputs
    /\ inputs' = inputs + 1
    /\ started' = c
    /\ \E msg \in Messages, choice \in Choices, r \in Nonces :
          /\ message' = [message EXCEPT ![c] = msg]
          /\ encryption_choice' = [encryption_choice EXCEPT ![c] = choice]
          /\ IF ~ValidMessage(msg)
             THEN /\ result' = [result EXCEPT ![c] = "invalid"]
                  /\ bpc' = [bpc EXCEPT ![c] = "ret"]
                  /\ UNCHANGED encrypted_message
             ELSE /\ encrypted_message' = [encrypted_message EXCEPT ![c] =
                         IF choice = "unencrypted" THEN None ELSE encrypt_message(msg, r)]
                  /\ bpc' = [bpc EXCEPT ![c] = "clear_tx"]
                  /\ UNCHANGED result
    /\ UNCHANGED << messages, messages_lock, listenerVars, called, raised,
                    succeeded, txHistory, fldigiVars, webVars >>

\* A transport call whose exception is swallowed: the handler goes on.
TransportCallSwallows(c, op, next) ==
    /\ called' = [called EXCEPT ![c] = @ \cup {op}]
    /\ bpc' = [bpc EXCEPT ![c] = next]
    /\ UNCHANGED << result, message, encryption_choice, encrypted_message >>
    /\ \/ UNCHANGED raised
       \/ raised' = [raised EXCEPT ![c] = op]

\* A call of the transport: it returns, or it raises and the handler's
\* except clause answers with the error page (the clause reads none of the
\* handler's locals, which are dropped here).
TransportCall(c, op, next) ==
    /\ called' = [called EXCEPT ![c] = @ \cup {op}]
    /\ \/ /\ bpc' = [bpc EXCEPT ![c] = next]
          /\ UNCHANGED << result, raised, message, encryption_choice, encrypted_message >>
       \/ /\ raised' = [raised EXCEPT ![c] = op]
          /\ bpc' = [bpc EXCEPT ![c] = "ret"]
          /\ result' = [result EXCEPT ![c] = "error"]
          /\ message' = [message EXCEPT ![c] = None]
          /\ encryption_choice' = [encryption_choice EXCEPT ![c] = ""]
          /\ encrypted_message' = [encrypted_message EXCEPT ![c] = None]

\* fldigi's transmit text after a call of the transport has returned:
\* clear_tx empties it, add_tx appends the call's payload to it, and
\* main.tx puts it on the air, which uses it up.
TxText(op, c, text) ==
    CASE op = "clear_tx" -> << >>
      [] op = "add_tx" -> Append(text, c)
      [] op = "tx" -> << >>

\* fldigi during the transport call op of call c: a call that returns acts
\* on the transmit text, one that raises leaves it alone.
Fldigi(c, op) ==
    IF bpc'[c] # "ret"
    THEN /\ tx_buffer' = TxText(op, c, tx_buffer)
         /\ sent' = IF op = "tx" THEN [sent EXCEPT ![c] = tx_buffer] ELSE sent
    ELSE UNCHANGED fldigiVars

\* The handler's side of a transport call.
Transport(c, op, next) ==
    /\ bpc[c] = op
    /\ TransportCall(c, op, next)
    /\ UNCHANGED << messages, messages_lock, listenerVars, inputs, started,
                    succeeded, txHistory, webVars >>

\* fldigi_client.text.clear_tx()
ClearTx(c) == Transport(c, "clear_tx", "add_tx") /\ UNCHANGED fldigiVars

\* fldigi_client.text.add_tx(message) / add_tx(encrypted_message)
AddTx(c) == Transport(c, "add_tx", "tx") /\ UNCHANGED fldigiVars

\* fldigi_client.main.tx()
MainTx(c) == Transport(c, "tx", "lock") /\ UNCHANGED fldigiVars

\* The same three calls with what they do to fldigi's transmit text, which
\* is no state of the program: only TransportSpec follows it.
FldigiClearTx(c) == Transport(c, "clear_tx", "add_tx") /\ Fldigi(c, "clear_tx")
FldigiAddTx(c) == Transport(c, "add_tx", "tx") /\ Fldigi(c, "add_tx")
FldigiMainTx(c) == Transport(c, "tx", "lock") /\ Fldigi(c, "tx")

\* with messages_lock:
BroadcastAcquire(c) ==
    /\ bpc[c] = "lock"
    /\ messages_lock = "free"
    /\ messages_lock' = Holder(c)
    /\ bpc' = [bpc EXCEPT ![c] = "append"]
    /\ UNCHANGED << messages, listenerVars, message, encryption_choice,
                    encrypted_message, result, called, raised, inputs, started,
                    succeeded, txHistory, fldigiVars, webVars >>

\* the append without the release of the lock at the end of the with block
BroadcastAppendKeepsLock(c) ==
    /\ bpc[c] = "append"
    /\ messages_lock = Holder(c)
    /\ \E r \in Nonces :
          messages' = [messages EXCEPT !.transmitted =
              AppendRecord(@, TransmittedRecord(message[c], encryption_choice[c], r))]
    /\ txHistory' = Append(txHistory, c)
    /\ UNCHANGED messages_lock
    /\ result' = [result EXCEPT ![c] = "success"]
    /\ bpc' = [bpc EXCEPT ![c] = "ret"]
    /\ UNCHANGED << listenerVars, message, encryption_choice, encrypted_message,
                    called, raised, inputs, started, succeeded, fldigiVars, webVars >>

\* the body of the with block (encrypt_message runs again, with a fresh
\* seed), the release, and the success page
BroadcastAppend(c) ==
    /\ bpc[c] = "append"
    /\ messages_lock = Holder(c)
    /\ \E r \in Nonces :
          messages' = [messages EXCEPT !.transmitted =
              AppendRecord(@, TransmittedRecord(message[c], encryption_choice[c], r))]
    /\ txHistory' = Append(txHistory, c)
    /\ messages_lock' = "free"
    /\ result' = [result EXCEPT ![c] = "success"]
    /\ bpc' = [bpc EXCEPT ![c] = "ret"]
    /\ UNCHANGED << listenerVars, message, encryption_choice, encrypted_message,
                    called, raised, inputs, started, succeeded, fldigiVars, webVars >>

\* The page is returned and the call's frame is gone.
BroadcastReturn(c) ==
    /\ bpc[c] = "ret"
    /\ bpc' = [bpc EXCEPT ![c] = "done"]
    /\ succeeded' = IF result[c] = "success" THEN succeeded + 1 ELSE succeeded
    /\ message' = [message EXCEPT ![c] = None]
    /\ encryption_choice' = [encryption_choice EXCEPT ![c] = ""]
    /\ encrypted_message' = [encrypted_message EXCEPT ![c] = None]
    /\ result' = [result EXCEPT ![c] = ""]
    /\ called' = [called EXCEPT ![c] = {}]
    /\ raised' = [raised EXCEPT ![c] = ""]
    /\ UNCHANGED << messages, messages_lock, listenerVars, inputs, started, txHistory,
                    fldigiVars, webVars >>

\* ----------------------------------------------------------------- index
\* GET /: the request arrives and the rendering of the template begins.
\* One page is rendered at a time (page requests do not affect each other).
IndexStart ==
    /\ ipc = "idle"
    /\ inputs < MaxInputs
    /\ inputs' = inputs + 1
    /\ ipc' = "received"
    /\ UNCHANGED << messages, messages_lock, listenerVars, callVars, keyVars,
                    tripVars, page, files, modem_name, sreq, sstarted >>

\* {% for msg in messages["received"] %}: the list is read without
\* messages_lock
IndexReceived ==
    /\ ipc = "received"
    /\ page' = [page EXCEPT !.received = messages.received]
    /\ ipc' = "transmitted"
    /\ UNCHANGED << messages, messages_lock, listenerVars, callVars, keyVars,
                    tripVars, files, modem_name, sreq, sstarted, inputs >>

\* {% for msg in messages["transmitted"] %}: the list is read without
\* messages_lock, and the page is returned
IndexTransmitted ==
    /\ ipc = "transmitted"
    /\ page' = [page EXCEPT !.transmitted = messages.transmitted]
    /\ ipc' = "idle"
    /\ UNCHANGED << messages, messages_lock, listenerVars, callVars, keyVars,
                    tripVars, files, modem_name, sreq, sstarted, inputs >>

Index ==
    \/ IndexStart
    \/ IndexReceived
    \/ IndexTransmitted

\* -------------------------------------------------------------- settings
\* GET, and any request in which reading fldigi_client.modem.name raises:
\* the page (or the error page) is returned and nothing is changed.
SettingsGet ==
    /\ inputs < MaxInputs
    /\ inputs' = inputs + 1
    /\ UNCHANGED << messages, messages_lock, listenerVars, callVars, webVars >>

\* POST with change_mode
SettingsChangeMode ==
    /\ inputs < MaxInputs
    /\ inputs' = inputs + 1
    /\ \E new_mode \in FormModes :
          modem_name' = IF new_mode \in Modes THEN new_mode ELSE modem_name
    /\ UNCHANGED << messages, messages_lock, listenerVars, callVars, keyVars,
                    tripVars, page, ipc, files,
                    sreq, sstarted >>

\* the import without the RSA.import_key test: every named key is written
SettingsImportKeyUnchecked(k) ==
    /\ sreq[k].pc = "idle"
    /\ k = sstarted + 1
    /\ inputs < MaxInputs
    /\ inputs' = inputs + 1
    /\ sstarted' = k
    /\ \E a \in FormAliases, content \in FormKeys :
          LET req == [NoRequest EXCEPT !.op = "import_key", !.key_alias = strip(a),
                                       !.public_key_content = content]
          IN  sreq' = [sreq EXCEPT ![k] =
                  IF strip(a) # "" /\ content # ""
                  THEN [req EXCEPT !.pc = "write"]
                  ELSE [req EXCEPT !.pc = "ret", !.result = "page"]]
    /\ UNCHANGED << messages, messages_lock, listenerVars, callVars, keyVars,
                    tripVars, page, ipc, files,
                    modem_name >>

\* POST with import_key, up to the validation of the key: an empty alias or
\* an empty key skips the import without a word, a key RSA.import_key
\* rejects is logged as an error, and in both cases the page is rendered.
SettingsImportKey(k) ==
    /\ sreq[k].pc = "idle"
    /\ k = sstarted + 1
    /\ inputs < MaxInputs
    /\ inputs' = inputs + 1
    /\ sstarted' = k
    /\ \E a \in FormAliases, content \in FormKeys :
          LET key_alias == strip(a)
              req == [NoRequest EXCEPT !.op = "import_key", !.key_alias = key_alias,
                                       !.public_key_content = content]
          IN  sreq' = [sreq EXCEPT ![k] =
                  IF key_alias # "" /\ content # ""
                  THEN IF RSA_import_key(content)
                       THEN [req EXCEPT !.pc = "write"]
                       ELSE [req EXCEPT !.pc = "ret", !.logged = "error",
                                        !.result = "page"]
                  ELSE [req EXCEPT !.pc = "ret", !.result = "page"]]
    /\ UNCHANGED << messages, messages_lock, listenerVars, callVars, keyVars,
                    tripVars, page, ipc, files,
                    modem_name >>

\* with open(key_path, "w") as key_file: key_file.write(public_key_content),
\* the log line and the rendering of the page
SettingsWrite(k) ==
    /\ sreq[k].pc = "write"
    /\ files' = [files EXCEPT ![KeyPath(sreq[k].key_alias)] = sreq[k].public_key_content]
    /\ sreq' = [sreq EXCEPT ![k].pc = "ret", ![k].logged = "info", ![k].result = "page"]
    /\ UNCHANGED << messages, messages_lock, listenerVars, callVars, keyVars,
                    tripVars, page, ipc, modem_name,
                    inputs, sstarted >>

\* POST with delete_key, up to os.path.exists(key_path): a missing file is
\* logged as an error and the page is rendered.
SettingsDeleteKey(k) ==
    /\ sreq[k].pc = "idle"
    /\ k = sstarted + 1
    /\ inputs < MaxInputs
    /\ inputs' = inputs + 1
    /\ sstarted' = k
    /\ \E a \in FormAliases :
          LET req == [NoRequest EXCEPT !.op = "delete_key", !.key_alias = strip(a)]
          IN  sreq' = [sreq EXCEPT ![k] =
                  IF files[KeyPath(strip(a))] # ""
                  THEN [req EXCEPT !.pc = "remove"]
                  ELSE [req EXCEPT !.pc = "ret", !.logged = "error", !.result = "page"]]
    /\ UNCHANGED << messages, messages_lock, listenerVars, callVars, keyVars,
                    tripVars, page, ipc, files,
                    modem_name >>

\* os.remove(key_path): of a file that is no longer there it raises, and the
\* except clause of the route logs the error and answers with the error page.
SettingsRemove(k) ==
    /\ sreq[k].pc = "remove"
    /\ IF files[KeyPath(sreq[k].key_alias)] # ""
       THEN /\ files' = [files EXCEPT ![KeyPath(sreq[k].key_alias)] = ""]
            /\ sreq' = [sreq EXCEPT ![k].pc = "ret", ![k].logged = "info",
                                    ![k].result = "page"]
       ELSE /\ UNCHANGED files
            /\ sreq' = [sreq EXCEPT ![k].pc = "ret", ![k].logged = "error",
                                    ![k].raised = "os.remove", ![k].result = "error"]
    /\ UNCHANGED << messages, messages_lock, listenerVars, callVars, keyVars,
                    tripVars, page, ipc, modem_name,
                    inputs, sstarted >>

\* The page is returned and the request's frame is gone.
SettingsReturn(k) ==
    /\ sreq[k].pc = "ret"
    /\ sreq' = [sreq EXCEPT ![k] = [NoRequest EXCEPT !.pc = "done"]]
    /\ UNCHANGED << messages, messages_lock, listenerVars, callVars, keyVars,
                    tripVars, page, ipc, files,
                    modem_name, inputs, sstarted >>

KeyRequest(k) ==
    \/ SettingsImportKey(k)
    \/ SettingsWrite(k)
    \/ SettingsDeleteKey(k)
    \/ SettingsRemove(k)
    \/ SettingsReturn(k)

Settings ==
    \/ SettingsGet
    \/ SettingsChangeMode
    \/ \E k \in Reqs : KeyRequest(k)

Listener ==
    \/ ListenerPoll
    \/ ListenerAcquire
    \/ ListenerAppend
    \/ ListenerSleep
    \/ ListenerBackoff

Broadcast(c) ==
    \/ BroadcastBegin(c)
    \/ ClearTx(c)
    \/ AddTx(c)
    \/ MainTx(c)
    \/ BroadcastAcquire(c)
    \/ BroadcastAppend(c)
    \/ BroadcastReturn(c)

Next ==
    \/ Listener
    \/ \E c \in Calls : Broadcast(c)
    \/ Index
    \/ Settings

Spec == Init /\ [][Next]_vars

\* The threads that use messages_lock: the listener and the broadcast calls.
\* The page and settings requests touch neither the lock nor a variable of
\* these threads, and are left out where the progress of these threads is
\* checked.
LockNext == Listener \/ \E c \in Calls : Broadcast(c)

\* The listener is scheduled again and again: it is a thread of its own.
FairSpec == Init /\ [][LockNext]_vars /\ WF_vars(Listener)

\* Every thread that is inside or in front of a with block is scheduled: it
\* leaves the block it is in, and it enters the block when the lock stays
\* free.
LockFairSpec ==
    /\ Init
    /\ [][LockNext]_vars
    /\ WF_vars(ListenerAcquire \/ ListenerAppend)
    /\ \A c \in Calls : WF_vars(BroadcastAcquire(c) \/ BroadcastAppend(c))

\* ================================================================ claims
Active(c) == bpc[c] \notin { "idle", "done" }
Owners == { txHistory[i] : i \in 1..Len(txHistory) }

\* The record a call has appended, for a call that is about to return the
\* success page.
Succeeded(c) == bpc[c] = "ret" /\ result[c] = "success"
RecordOf(c) ==
    messages.transmitted[CHOOSE i \in 1..Len(txHistory) : txHistory[i] = c]
AllTransportCalls == { "clear_tx", "add_tx", "tx" }

\* What the claims mean by a text the local private key decrypts (to a
\* text), and by the plaintext it then yields.
Decryptable(t) == t.b64 /\ t.form = "oaep" /\ t.key = "local" /\ t.utf8
PlaintextOf(t) == Val("str", FALSE, t.chars, t.bytes, TRUE, "", 0)

\* C1: a broadcast call that asks for encryption and whose encrypt_message
\* gives no ciphertext makes neither add_tx nor main.tx, and ends in an
\* error outcome.
C1_EncryptFailureSendsNothing ==
    \A c \in Calls :
        (Active(c) /\ ValidMessage(message[c])
            /\ encryption_choice[c] = "encrypted" /\ encrypted_message[c] = None)
        => /\ "add_tx" \notin called[c]
           /\ "tx" \notin called[c]
           /\ (bpc[c] = "ret" => result[c] # "success")

\* C2: the three transport calls come before the append; a call in which
\* one of them raised ends in an error outcome and has appended no record.
C2_TransportFailureAppendsNothing ==
    \A c \in Calls :
        /\ (Active(c) /\ raised[c] # "") =>
              /\ bpc[c] = "ret"
              /\ result[c] = "error"
              /\ c \notin Owners
        /\ (Active(c) /\ c \in Owners) => called[c] = AllTransportCalls

C2_Witness ==
    \E c, d \in Calls :
        /\ bpc[c] = "ret" /\ raised[c] = "tx" /\ result[c] = "error"
        /\ d \in Owners
        /\ Len(messages.transmitted) = 1

\* C3: a message that is empty or longer than 1024 characters is answered
\* with an error outcome, whatever the encryption choice, with no
\* transport call and no record appended; a message of 1 to 1024 characters
\* is not answered with that error.
C3_MessageBound ==
    \A c \in Calls :
        (Active(c) /\ message[c] # None) =>
            IF message[c].chars = 0 \/ message[c].chars > 1024
            THEN /\ bpc[c] = "ret"
                 /\ result[c] = "invalid"
                 /\ called[c] = {}
                 /\ c \notin Owners
                 /\ Len(messages.transmitted) = Len(txHistory)
            ELSE result[c] # "invalid"

C3_Witness ==
    \E c, d \in Calls :
        /\ bpc[c] = "ret" /\ message[c].chars = 1025 /\ result[c] = "invalid"
        /\ Active(d) /\ message[d].chars = 1024 /\ "tx" \in called[d]

\* C4: every transmitted record has decrypted equal to the message
\* submitted, and encrypted set exactly when ciphertext, not the raw
\* message, was handed to the transport (stated of each record when the
\* call that appended it returns).
C4_EncryptedIffCiphertextSent ==
    \A c \in Calls :
        Succeeded(c) =>
            /\ RecordOf(c).decrypted = message[c]
            /\ (RecordOf(c).encrypted # None) <=> (Payload(c).form = "oaep")

\* C5: the encrypted field of the record of an encrypted broadcast is the
\* ciphertext that was handed to the transport.
C5_RecordHoldsSentCiphertext ==
    \A c \in Calls :
        (Succeeded(c) /\ RecordOf(c).encrypted # None)
            => RecordOf(c).encrypted = Payload(c)

\* C6: every received record holds the text the poll returned, and its
\* decrypted field is the plaintext when the local private key decrypts
\* that text and is absent otherwise.
C6_ReceivedRecords ==
    /\ Len(messages.received) <= Len(rxHistory)
    /\ \A i \in 1..Len(messages.received) :
          /\ messages.received[i].message = rxHistory[i]
          /\ messages.received[i].decrypted =
                IF Decryptable(rxHistory[i]) THEN PlaintextOf(rxHistory[i]) ELSE None

C6_Witness ==
    /\ Len(messages.received) = 2
    /\ Decryptable(messages.received[1].message)
    /\ messages.received[1].decrypted.chars = 0
    /\ ~Decryptable(messages.received[2].message)

\* C7: the listener has no terminal state: it is always at one of the places
\* of its loop, and after a failed cycle has put it into the long sleep it
\* comes back to the poll.
C7_ListenerNeverStops ==
    /\ [](lpc \in { "poll", "lock", "append", "sleep", "backoff" })
    /\ (lpc = "backoff") ~> (lpc = "poll")

C7_Witness ==
    /\ lpc = "backoff"
    /\ Len(messages.received) = 1

\* C8: both logs are append-only: every step leaves the old contents of
\* received and of transmitted as a prefix of the new contents, and what a
\* rendered page showed is a prefix of the logs.
IsPrefix(s, t) == Len(s) <= Len(t) /\ SubSeq(t, 1, Len(s)) = s

C8_AppendOnly ==
    /\ [][/\ IsPrefix(messages.received, messages'.received)
          /\ IsPrefix(messages.transmitted, messages'.transmitted)]_vars
    /\ [](/\ IsPrefix(page.received, messages.received)
          /\ IsPrefix(page.transmitted, messages.transmitted))

C8_Witness ==
    /\ Len(messages.transmitted) = 2
    /\ txHistory[1] # txHistory[2]
    /\ messages.transmitted[1] # messages.transmitted[2]

\* C9: once the listener has appended for each of the N texts it polled
\* and the M successful broadcast calls have returned, received holds N
\* records and transmitted M records, one for each call.
Quiescent ==
    /\ lpc \in { "poll", "sleep", "backoff" }
    /\ \A c \in Calls : ~Active(c)

C9_NoLostRecords ==
    Quiescent =>
        /\ Len(messages.received) = Len(rxHistory)
        /\ Len(messages.transmitted) = succeeded
        /\ Cardinality(Owners) = succeeded

C9_Witness ==
    /\ Quiescent
    /\ Len(messages.received) = 1
    /\ succeeded = 1
    /\ inputs = MaxInputs

\* C10: a polled text the private key does not decrypt never sends the
\* listener to the error backoff: decrypt_message gives None, exactly one
\* record with the raw text and no decrypted form is appended, and the
\* listener goes on to the short sleep.
C10_UndecryptableIsLogged ==
    (Truthy(received_text) /\ ~Decryptable(received_text)) =>
        /\ lpc \in { "lock", "append", "sleep" }
        /\ lpc \in { "lock", "append" } => Len(messages.received) = Len(rxHistory) - 1
        /\ lpc = "sleep" =>
              /\ decrypted_text = None
              /\ Len(messages.received) = Len(rxHistory)
              /\ messages.received[Len(messages.received)] =
                    [message |-> received_text, decrypted |-> None]

C10_Witness ==
    /\ lpc = "sleep"
    /\ received_text.b64
    /\ received_text.key = "other"
    /\ Len(messages.received) = 2

\* -------------------------------------------------------------- start-up
\* The directory ~/.rf_fox as a start of the program may find it: each key
\* file is missing, or holds what an earlier run generated or stored there
\* (every text the program writes to a key file is one RSA.import_key reads).
StoredPrivate == { "", "private:local", "private:k3", "public:k1" }
StoredPublic == { "", "public:local", "public:k1", "public:k2", "private:k3" }
StoredRemote == { "", "public:k1", "public:k2" }

StartupInit ==
    /\ Idle
    /\ \E priv \in StoredPrivate, pub \in StoredPublic, rem \in StoredRemote :
          files = [p \in Paths |->
                      IF p = PRIVATE_KEY_PATH THEN priv
                      ELSE IF p = PUBLIC_KEY_PATH THEN pub
                      ELSE IF p = KeyPath("bob") THEN rem
                      ELSE ""]
    /\ private_key = ""
    /\ public_key = ""
    /\ loads = 0
    /\ plaintext = None
    /\ ciphertext = None
    /\ recovered = None
    /\ tpc = "start"

\* private_key, public_key = load_rsa_keys()
LoadKeys ==
    /\ loads < MaxLoads
    /\ loads' = loads + 1
    /\ \E id \in GeneratedKeys :
          LET out == load_rsa_keys(files, id)
          IN  /\ files' = out.files
              /\ private_key' = out.private_key
              /\ public_key' = out.public_key
    /\ UNCHANGED << messages, messages_lock, listenerVars, callVars, page, ipc,
                    modem_name, sreq, sstarted, inputs, tripVars >>

StartupSpec == StartupInit /\ [][LoadKeys]_vars

\* C13: a call of load_rsa_keys that finds both key files writes no file
\* and returns the pair the files hold; so after any call the pair in hand
\* is the stored one, and a second call changes neither the files nor the
\* pair.
C13_LoadIsIdempotent ==
    /\ [][(files[PRIVATE_KEY_PATH] # "" /\ files[PUBLIC_KEY_PATH] # "" /\ loads' = loads + 1) =>
            /\ files' = files
            /\ private_key' = files[PRIVATE_KEY_PATH]
            /\ public_key' = files[PUBLIC_KEY_PATH]]_vars
    /\ [][(loads >= 1 /\ loads' = loads + 1) =>
            /\ files' = files
            /\ private_key' = private_key
            /\ public_key' = public_key]_vars

C13_Witness ==
    /\ loads = 2
    /\ private_key = "private:fresh"
    /\ public_key = "public:fresh"
    /\ files[PRIVATE_KEY_PATH] = "private:fresh"
    /\ files[PUBLIC_KEY_PATH] = "public:fresh"

\* ------------------------------------------------------------ round trip
\* The two functions applied one after the other to a plaintext, with the
\* ciphers of the key pair the installation generated.
RoundTripInit ==
    /\ Idle
    /\ files = [p \in Paths |->
                    IF p = PRIVATE_KEY_PATH THEN "private:local"
                    ELSE IF p = PUBLIC_KEY_PATH THEN "public:local"
                    ELSE ""]
    /\ private_key = "private:local"
    /\ public_key = "public:local"
    /\ loads = 1
    /\ plaintext \in Plaintexts
    /\ ciphertext = None
    /\ recovered = None
    /\ tpc = "start"

\* encrypt_message(p)
TripEncrypt ==
    /\ tpc = "start"
    /\ \E r \in Nonces : ciphertext' = encrypt_message(plaintext, r)
    /\ tpc' = "encrypted"
    /\ UNCHANGED << messages, messages_lock, listenerVars, callVars, page, ipc, files,
                    modem_name, sreq, sstarted, inputs, keyVars, plaintext, recovered >>

\* decrypt_message(encrypt_message(p))
TripDecrypt ==
    /\ tpc = "encrypted"
    /\ recovered' = decrypt_message(ciphertext)
    /\ tpc' = "decrypted"
    /\ UNCHANGED << messages, messages_lock, listenerVars, callVars, page, ipc, files,
                    modem_name, sreq, sstarted, inputs, keyVars, plaintext, ciphertext >>

RoundTripNext == TripEncrypt \/ TripDecrypt

RoundTripSpec == RoundTripInit /\ [][RoundTripNext]_vars

\* C15: a plaintext whose UTF-8 encoding fits one OAEP block of the key is
\* encrypted to a base64 text, and decrypt_message of that text returns the
\* plaintext.
C15_RoundTrip ==
    plaintext.bytes <= MaxPayload =>
        /\ tpc # "start" => (ciphertext # None /\ ciphertext.b64 /\ ciphertext # plaintext)
        /\ tpc = "decrypted" => recovered = plaintext

C15_Witness ==
    /\ tpc = "decrypted"
    /\ plaintext.bytes = MaxPayload
    /\ plaintext.chars < MaxPayload
    /\ recovered = plaintext

\* ------------------------------------------------------- the key store
\* The step is one of request k, whose locals are those of r.
StepOf(k, r) ==
    /\ sreq'[k] # sreq[k]
    /\ r = IF sreq[k].pc = "idle" THEN sreq'[k] ELSE sreq[k]

RemoteKeys(f) == [alias \in stored_keys(f) |-> f[KeyPath(alias)]]

\* C12: the write of an import of (alias, key) leaves one entry for that
\* alias, holding that key, whether or not the alias had an entry before,
\* and leaves the entries of all other aliases as they were.
C12_ReimportReplaces ==
    [][\A k \in Reqs :
        (sreq[k].pc = "write" /\ sreq'[k].pc = "ret") =>
            LET old == RemoteKeys(files)
                new == RemoteKeys(files')
            IN  /\ DOMAIN new = DOMAIN old \cup { sreq[k].key_alias }
                /\ new[sreq[k].key_alias] = sreq[k].public_key_content
                /\ \A b \in DOMAIN old \ { sreq[k].key_alias } : new[b] = old[b]]_vars

\* C14: an import whose alias is empty once stripped is answered with an
\* error and leaves a log entry.
C14_EmptyAliasIsAnError ==
    \A k \in Reqs :
        (sreq[k].pc = "ret" /\ sreq[k].op = "import_key" /\ sreq[k].key_alias = "") =>
            /\ sreq[k].result = "error"
            /\ sreq[k].logged = "error"

\* ------------------------------------------------------------ the readers
\* C16: the page is never being rendered, that is, index is never reading
\* received or transmitted, while another thread is inside its locked
\* append section.
C16_ReadsAreLocked ==
    ipc \in { "received", "transmitted" } => messages_lock = "free"

\* The settings requests alone, on an installation that may hold a remote
\* key imported by an earlier run.
KeyStoreInit ==
    /\ Idle
    /\ \E rem \in StoredRemote :
          files = [p \in Paths |->
                      IF p = PRIVATE_KEY_PATH THEN "private:local"
                      ELSE IF p = PUBLIC_KEY_PATH THEN "public:local"
                      ELSE IF p = KeyPath("bob") THEN rem
                      ELSE ""]
    /\ private_key = "private:local"
    /\ public_key = "public:local"
    /\ loads = 1
    /\ plaintext = None
    /\ ciphertext = None
    /\ recovered = None
    /\ tpc = "start"

KeyStoreSpec == KeyStoreInit /\ [][Settings]_vars

\* C17: a delete request for an alias of the remote-keys directory ends by
\* removing the file of its alias or by reporting that there is none; it
\* never ends with the error page because the file went away between its
\* os.path.exists and its os.remove.
C17_DeleteNeverRaces ==
    \A k \in Reqs :
        (/\ sreq[k].pc = "ret"
         /\ sreq[k].op = "delete_key"
         /\ KeyPath(sreq[k].key_alias) \notin { PRIVATE_KEY_PATH, PUBLIC_KEY_PATH }) =>
            /\ sreq[k].result = "page"
            /\ sreq[k].raised # "os.remove"

\* ---------------------------------------------------------- the transport
\* The broadcast calls together with fldigi.
TransportNext ==
    \E c \in Calls :
        \/ BroadcastBegin(c)
        \/ FldigiClearTx(c)
        \/ FldigiAddTx(c)
        \/ FldigiMainTx(c)
        \/ BroadcastAcquire(c)
        \/ BroadcastAppend(c)
        \/ BroadcastReturn(c)

TransportSpec == Init /\ [][TransportNext]_vars

\* The call's main.tx() has returned.
Transmitted(c) == "tx" \in called[c] /\ raised[c] # "tx"

\* C18: what a call's main.tx() puts on the air is that call's payload,
\* once, and nothing else.
C18_OwnPayloadTransmitted ==
    \A c \in Calls : Transmitted(c) => sent[c] = << c >>

\* ---------------------------------------------------------------- the lock
\* C19: messages_lock is held by the listener exactly while it is in its
\* decrypt-and-append section and by a broadcast call exactly while it is
\* in its append section, so it is free whenever the listener polls or
\* sleeps and after every exit from a section; and every thread waiting
\* for the lock comes to hold it: a waiting thread stops waiting only by
\* entering its section, and again and again no thread is waiting.
C19_LockDiscipline ==
    /\ [](/\ messages_lock \in { "free", "listener" } \cup { Holder(c) : c \in Calls }
          /\ messages_lock = "listener" <=> lpc = "append"
          /\ \A c \in Calls : messages_lock = Holder(c) <=> bpc[c] = "append")
    /\ [][/\ (lpc = "lock" /\ lpc' # "lock") =>
                (lpc' = "append" /\ messages_lock' = "listener")
          /\ \A c \in Calls : (bpc[c] = "lock" /\ bpc'[c] # "lock") =>
                (bpc'[c] = "append" /\ messages_lock' = Holder(c))]_vars
    /\ []<>(lpc # "lock" /\ \A c \in Calls : bpc[c] # "lock")

C19_Witness ==
    /\ lpc = "lock"
    /\ \E c \in Calls : messages_lock = Holder(c)

\* -------------------------------------------------------- the identity keys
\* GET /public_key: the page shows what PUBLIC_KEY_PATH holds when it is
\* requested.
public_key_page(f) == f[PUBLIC_KEY_PATH]

\* C20: whatever alias the settings requests carry, the two identity key
\* files stay as load_rsa_keys left them, and the public-key page shows the
\* public key loaded at start-up.
C20_IdentityKeysUntouched ==
    /\ files[PRIVATE_KEY_PATH] = private_key
    /\ files[PUBLIC_KEY_PATH] = public_key
    /\ public_key_page(files) = public_key

====
